---- MODULE Spec2Model ----
(***************************************************************************)
(* Model of the record-correlation and arbitrage-detection engine of       *)
(* bet_arbitrage: BetOption (src/obj.py) and SetStructure, Graph and       *)
(* Manager (src/app/manager.py).                                           *)
(*                                                                         *)
(* Conventions.                                                            *)
(*  - A Python float is an exact rational <<n, d>> with d > 0, kept in     *)
(*    lowest terms; None is the pair <<0, 0>>.                             *)
(*  - A Python str is a sequence of one-character strings.                 *)
(*  - A date is a day number >= 1; None is 0.                              *)
(*  - A dict that is iterated (Manager.database) is a sequence of its      *)
(*    values in insertion order; the other dicts are functions.            *)
(*  - Every call of the engine is one atomic action (the sequential        *)
(*    semantics of the calls).                                             *)
(***************************************************************************)
EXTENDS Integers, Sequences, FiniteSets, Bags, TLC

(***************************************************************************)
(* Bounds of the model                                                     *)
(***************************************************************************)
\* number of engine calls in one behaviour
MaxOps == 3

(***************************************************************************)
(* Rationals standing for Python floats                                    *)
(***************************************************************************)
None == <<0, 0>>

Abs(x) == IF x < 0 THEN -x ELSE x

RECURSIVE GCD(_, _)
GCD(a, b) == IF b = 0 THEN a ELSE GCD(b, a % b)

\* lowest terms, positive denominator (x, y and g are bound to the values
\* of n, d and their greatest common divisor)
Norm(n, d) ==
    CHOOSE r \in UNION {{LET s == IF y < 0 THEN -1 ELSE 1
                          IN  <<(s * x) \div g, (s * y) \div g>> :
                            g \in {GCD(Abs(x), Abs(y))}} :
                         x \in {n}, y \in {d}} : TRUE

R(n, d) == Norm(n, d)
RLt(a, b) == a[1] * b[2] < b[1] * a[2]
RLe(a, b) == a[1] * b[2] <= b[1] * a[2]
RGt(a, b) == RLt(b, a)
RAdd(a, b) == Norm(a[1] * b[2] + b[1] * a[2], a[2] * b[2])
RSub(a, b) == Norm(a[1] * b[2] - b[1] * a[2], a[2] * b[2])
RMul(a, b) == Norm(a[1] * b[1], a[2] * b[2])
RInv(a) == Norm(a[2], a[1])
\* Python max(a, b): b only when it is strictly greater
RMax(a, b) == IF RLt(a, b) THEN b ELSE a
\* truth value of an Optional[float]: None and 0 are false
Truthy(x) == x[1] # 0
\* Python "a or b"
POr(a, b) == IF Truthy(a) THEN a ELSE b

Zero == R(0, 1)
One == R(1, 1)
Hundred == R(100, 1)

(***************************************************************************)
(* Strings                                                                 *)
(***************************************************************************)
UpperToLower ==
    [c \in {"A", "B", "C", "N", "O", "S", "T", "Y", "E"} |->
        CASE c = "A" -> "a" [] c = "B" -> "b" [] c = "C" -> "c"
          [] c = "N" -> "n" [] c = "O" -> "o" [] c = "S" -> "s"
          [] c = "T" -> "t" [] c = "Y" -> "y" [] c = "E" -> "e"]

\* str.lower()
lower(s) ==
    [i \in 1..Len(s) |->
        IF s[i] \in DOMAIN UpperToLower THEN UpperToLower[s[i]] ELSE s[i]]

\* str.strip()
RECURSIVE strip(_)
strip(s) ==
    IF s = <<>> THEN s
    ELSE IF Head(s) = " " THEN strip(Tail(s))
    ELSE IF s[Len(s)] = " " THEN strip(SubSeq(s, 1, Len(s) - 1))
    ELSE s

\* length of a longest common subsequence
RECURSIVE LCS(_, _)
LCS(s, t) ==
    IF s = <<>> \/ t = <<>> THEN 0
    ELSE IF Head(s) = Head(t) THEN 1 + LCS(Tail(s), Tail(t))
    ELSE LET a == LCS(Tail(s), t)
             b == LCS(s, Tail(t))
         IN  IF a < b THEN b ELSE a

\* rapidfuzz fuzz.ratio(s, t): the normalised Indel similarity, 0..100
fuzz_ratio(s, t) ==
    IF Len(s) + Len(t) = 0 THEN R(100, 1)
    ELSE R(100 * 2 * LCS(s, t), Len(s) + Len(t))

(***************************************************************************)
(* Alias table and name normalisation                                      *)
(***************************************************************************)
\* teams_aliases.json is not part of the sources: load_team_aliases takes
\* its FileNotFoundError branch and returns ({}, set()).
ALIASES == [sport \in {} |-> [main \in {} |-> {}]]

ALL_NAMES ==
    UNION {DOMAIN ALIASES[sp] \cup UNION {ALIASES[sp][m] : m \in DOMAIN ALIASES[sp]}
           : sp \in DOMAIN ALIASES}

TEAM_NAME_MATCH_RATIO == 95
\* SIMILAR_STRINGS_THRESHOLD = 0.9, as a percentage
SIMILAR_STRINGS_THRESHOLD == 90

NoSport == "None"

\* load_team_aliases() on the content of a teams_aliases.json: raw[sp] is
\* the list of the (main_name, team_aliases) items of a sport in file order.
\* Main names and aliases are put to lower case; of two main names that
\* differ by case only, the later one keeps its aliases.
load_team_aliases_keeps_case(raw) ==
    LET table == [sp \in DOMAIN raw |->
                    [k \in {lower(raw[sp][i][1]) : i \in DOMAIN raw[sp]} |->
                        LET i == CHOOSE i \in DOMAIN raw[sp] :
                                   /\ lower(raw[sp][i][1]) = k
                                   /\ \A j \in DOMAIN raw[sp] :
                                         lower(raw[sp][j][1]) = k => j <= i
                        IN  raw[sp][i][2]]]
    IN  [ALIASES   |-> table,
         ALL_NAMES |-> UNION {{lower(m) : m \in DOMAIN table[sp]} \cup
                              UNION {{lower(x) : x \in table[sp][m]} :
                                     m \in DOMAIN table[sp]}
                              : sp \in DOMAIN table}]

load_team_aliases(raw) ==
    LET table == [sp \in DOMAIN raw |->
                    [k \in {lower(raw[sp][i][1]) : i \in DOMAIN raw[sp]} |->
                        LET i == CHOOSE i \in DOMAIN raw[sp] :
                                   /\ lower(raw[sp][i][1]) = k
                                   /\ \A j \in DOMAIN raw[sp] :
                                         lower(raw[sp][j][1]) = k => j <= i
                        IN  {lower(x) : x \in raw[sp][i][2]}]]
    IN  [ALIASES   |-> table,
         ALL_NAMES |-> UNION {{lower(m) : m \in DOMAIN table[sp]} \cup
                              UNION {{lower(x) : x \in table[sp][m]} :
                                     m \in DOMAIN table[sp]}
                              : sp \in DOMAIN table}]

\* fuzz_process.extractOne(query, choices, score_cutoff, processor): a best
\* choice whose score reaches the cutoff, {} when there is none. Query and
\* choices are scored after fuzz_utils.default_process (lower case, every
\* character that is no letter and no digit replaced by a space, the outer
\* spaces removed); the choice is returned as it is
extractOne(query, choices) ==
    LET score == [c \in choices \cup {query} |-> strip(lower(c))]
        ratio == [c \in choices |-> fuzz_ratio(score[query], score[c])]
        ok == {c \in choices : ratio[c][1] >= TEAM_NAME_MATCH_RATIO * ratio[c][2]}
    IN  IF ok = {} THEN {}
        ELSE {CHOOSE c \in ok :
                \A o \in ok : ratio[o][1] * ratio[c][2] <= ratio[c][1] * ratio[o][2]}

\* the (main_name, True) answers of the direct search over the tables
DirectHits(table, team_name, sports) ==
    {m \in UNION {DOMAIN table[sp] : sp \in sports} :
        \E sp \in sports :
            /\ m \in DOMAIN table[sp]
            /\ (team_name = lower(m) \/ team_name \in table[sp][m])}

\* the depth of recursion at which the interpreter raises RecursionError
RecursionLimit == 3

\* normalize_team_name with the module globals loaded.ALIASES and
\* loaded.ALL_NAMES, entered at the given depth of recursion: the name, the
\* flag, and the names it called itself with; the name is
\* <<"RecursionError">> when the recursion went beyond the limit
RECURSIVE normalize_team_name_from(_, _, _, _)
normalize_team_name_from(loaded, team_name, sport, depth) ==
    LET table  == loaded.ALIASES
        scoped == sport # NoSport /\ sport \in DOMAIN table
        sports == IF scoped THEN {sport} ELSE DOMAIN table
        names  == IF scoped
                  THEN {lower(m) : m \in DOMAIN table[sport]} \cup
                       UNION {table[sport][m] : m \in DOMAIN table[sport]}
                  ELSE loaded.ALL_NAMES
        hits   == DirectHits(table, team_name, sports)
        best   == extractOne(team_name, names)
    IN  IF depth > RecursionLimit
        THEN [name |-> <<"RecursionError">>, fixed |-> FALSE, via |-> <<>>]
        ELSE IF hits # {}
        THEN [name |-> CHOOSE m \in hits : TRUE, fixed |-> TRUE, via |-> <<>>]
        ELSE IF best # {}
        THEN LET c == CHOOSE c \in best : TRUE
                 r == normalize_team_name_from(
                          loaded, c, IF scoped THEN sport ELSE NoSport, depth + 1)
             IN  [r EXCEPT !.via = <<c>> \o @]
        ELSE [name |-> team_name, fixed |-> FALSE, via |-> <<>>]

normalize_team_name(team_name, sport) ==
    CHOOSE p \in {<<r.name, r.fixed>> :
                    r \in {normalize_team_name_from(
                              [ALIASES |-> ALIASES, ALL_NAMES |-> ALL_NAMES],
                              team_name, sport, 0)}} : TRUE

\* a character of a regex word (\w); the model's only other character is " "
IsWord(c) == c # " "

\* the regex \bst\b matches at position i of s
MatchAt(s, i) ==
    /\ i + 1 <= Len(s)
    /\ s[i] = "s" /\ s[i + 1] = "t"
    /\ (i = 1 \/ ~IsWord(s[i - 1]))
    /\ (i + 2 > Len(s) \/ ~IsWord(s[i + 2]))

regex_search(s) == \E i \in 1..Len(s) : MatchAt(s, i)

RECURSIVE regex_sub_from(_, _, _)
regex_sub_from(new, s, i) ==
    IF i > Len(s) THEN <<>>
    ELSE IF MatchAt(s, i) THEN new \o regex_sub_from(new, s, i + 2)
    ELSE <<s[i]>> \o regex_sub_from(new, s, i + 1)

regex_sub(new, s) == regex_sub_from(new, s, 1)

transform == << <<"s", "t", "a", "t", "e">>, <<"s", "a", "i", "n", "t">> >>

\* are_similar: (norm, fixed) of the name str after the first k passes of
\* the transformation loop; before the loop it is normalize_team_name(str),
\* and a pass normalises the transformed name when the name is not fixed
\* yet and the regex is found in it
RECURSIVE ApplyTransform(_, _)
ApplyTransform(str, k) ==
    LET prev == ApplyTransform(str, k - 1)
        again == IF k = 0 THEN TRUE ELSE ~prev[2] /\ regex_search(str)
    IN  IF again
        THEN normalize_team_name(
                 IF k = 0 THEN str ELSE strip(regex_sub(transform[k], str)),
                 NoSport)
        ELSE prev

are_similar(s1, s2) ==
    LET str == [i \in {1, 2} |-> strip(lower(IF i = 1 THEN s1 ELSE s2))]
        norm == [i \in {1, 2} |-> ApplyTransform(str[i], Len(transform))]
    IN  IF norm[1][1] = norm[2][1] THEN TRUE
        ELSE RLe(R(SIMILAR_STRINGS_THRESHOLD, 1), fuzz_ratio(str[1], str[2]))

(***************************************************************************)
(* BetOption (src/obj.py)                                                  *)
(***************************************************************************)
NoDate == 0
\* date.today()
Today == 2

\* the attribute reversed_match does not exist until a scan sets it
Unset == "unset"
Flag(b) == IF b THEN "true" ELSE "false"

BetOption(platform, id, optionA, optionB, probaA, probaB, probaDraw, event_date) ==
    [id |-> id, platform |-> platform, event_date |-> event_date,
     optionA |-> optionA, probaA |-> probaA,
     optionB |-> optionB, probaB |-> probaB,
     probaDraw |-> probaDraw, reversed_match |-> Unset]

YES == <<"y", "e", "s">>
NO == <<"n", "o">>

\* is_garbage with the limits 0.01, 100 and today rejected as well
is_garbage_inclusive(self) ==
    \/ RLe(self.probaA, R(1, 100)) \/ RLe(self.probaB, R(1, 100))
    \/ RLe(Hundred, self.probaA) \/ RLe(Hundred, self.probaB)
    \/ lower(self.optionA) \in {YES, NO}
    \/ lower(self.optionB) \in {YES, NO}
    \/ lower(self.optionA) = lower(self.optionB)
    \/ (self.event_date # NoDate /\ self.event_date <= Today)

is_garbage(self) ==
    IF (RLt(self.probaA, R(1, 100)) \/ RLt(self.probaB, R(1, 100)))
       \/ (RGt(self.probaA, Hundred) \/ RGt(self.probaB, Hundred))
    THEN TRUE
    ELSE IF lower(self.optionA) \in {YES, NO} THEN TRUE
    ELSE IF lower(self.optionB) \in {YES, NO} THEN TRUE
    ELSE IF lower(self.optionA) = lower(self.optionB) THEN TRUE
    ELSE IF self.event_date # NoDate /\ self.event_date < Today THEN TRUE
    ELSE FALSE

(***************************************************************************)
(* SetStructure (src/app/manager.py)                                       *)
(***************************************************************************)
Put(f, k, v) == [x \in DOMAIN f \cup {k} |-> IF x = k THEN v ELSE f[x]]
Del(f, k) == [x \in DOMAIN f \ {k} |-> f[x]]

\* add_set that rebinds only the members of the group it found
add_set_merge_existing_only(groups, existing_set, new_set, value) ==
    LET merged_set == existing_set \cup new_set
    IN  [data |-> [e \in DOMAIN groups.data |->
                     IF e \in existing_set THEN merged_set ELSE groups.data[e]],
         set_values |-> Put(groups.set_values, merged_set, value)]

\* add_set that keeps the value a member set already has
add_set_merge_keep_value(groups, existing_set, new_set, value) ==
    LET merged_set == existing_set \cup new_set
        data1 == [e \in DOMAIN groups.data \cup merged_set |->
                    IF e \in merged_set THEN merged_set ELSE groups.data[e]]
        values1 == IF merged_set \in DOMAIN groups.set_values
                   THEN groups.set_values
                   ELSE Put(groups.set_values, merged_set, value)
        values2 == IF existing_set \in DOMAIN values1 /\ existing_set # merged_set
                   THEN Del(values1, existing_set)
                   ELSE values1
    IN  [data |-> data1, set_values |-> values2]

\* add_set that cleans up the value of existing_set without comparing it
\* with the merged set
add_set_merge_drop_old(groups, existing_set, new_set, value) ==
    LET merged_set == existing_set \cup new_set
        data1 == [e \in DOMAIN groups.data \cup merged_set |->
                    IF e \in merged_set THEN merged_set ELSE groups.data[e]]
        values1 == Put(groups.set_values, merged_set, value)
        values2 == IF existing_set \in DOMAIN values1
                   THEN Del(values1, existing_set)
                   ELSE values1
    IN  [data |-> data1, set_values |-> values2]

\* the body of add_set once the loop over new_set has stopped at an element
\* of the group existing_set
add_set_merge(groups, existing_set, new_set, value) ==
    LET merged_set == existing_set \cup new_set
        data1 == [e \in DOMAIN groups.data \cup merged_set |->
                    IF e \in merged_set THEN merged_set ELSE groups.data[e]]
        values1 == Put(groups.set_values, merged_set, value)
        values2 == IF existing_set \in DOMAIN values1 /\ existing_set # merged_set
                   THEN Del(values1, existing_set)
                   ELSE values1
    IN  [data |-> data1, set_values |-> values2]

\* the else branch of add_set: no element of new_set is known
add_set_new(groups, new_set, value) ==
    [data |-> [e \in DOMAIN groups.data \cup new_set |->
                 IF e \in new_set THEN new_set ELSE groups.data[e]],
     set_values |-> Put(groups.set_values, new_set, value)]

\* the groups the loop "for element in new_set" can stop at: the iteration
\* order of a Python set of strings is that of their (per-process random)
\* hashes, so any known element can come first
FirstExisting(groups, new_set) ==
    {groups.data[e] : e \in new_set \cap DOMAIN groups.data}

\* SetStructure.add_set: the set of states it can leave the structure in
add_set(groups, new_set, value) ==
    IF FirstExisting(groups, new_set) = {}
    THEN {add_set_new(groups, new_set, value)}
    ELSE {add_set_merge(groups, existing_set, new_set, value) :
            existing_set \in FirstExisting(groups, new_set)}

find_set(groups, element) ==
    IF element \in DOMAIN groups.data THEN groups.data[element] ELSE {}

\* what a call of delete_set or delete_key leaves: the structure, the value
\* it returned ("True", "False", or "" when it raised), and the exception it
\* raised ("" when it returned)
Returned(groups, value) == [groups |-> groups, returns |-> value, raised |-> ""]
Raised(groups, exception) == [groups |-> groups, returns |-> "", raised |-> exception]

\* SetStructure.delete_set: found_set is a set, and "found_set in
\* self.set_values" hashes it: TypeError, after the members were deleted
delete_set(groups, element) ==
    LET found_set == find_set(groups, element)
        data1 == [e \in DOMAIN groups.data \ found_set |-> groups.data[e]]
    IN  IF found_set # {}
        THEN Raised([groups EXCEPT !.data = data1], "TypeError")
        ELSE Returned(groups, "False")

\* SetStructure.delete_key: the member sets are not changed, and "del
\* self.set_values[found_set]" hashes a set: TypeError, after the key was
\* deleted
delete_key(groups, element) ==
    IF element \in DOMAIN groups.data
    THEN LET found_set == find_set(groups, element)
             data1 == Del(groups.data, element)
         IN  IF found_set # {} /\ \A e \in found_set : e \notin DOMAIN data1
             THEN Raised([groups EXCEPT !.data = data1], "TypeError")
             ELSE Returned([groups EXCEPT !.data = data1], "True")
    ELSE Returned(groups, "False")

\* get_set_value for a set or frozenset argument (None when absent)
get_set_value_of_set(groups, key) ==
    IF key \in DOMAIN groups.set_values THEN groups.set_values[key]
    ELSE LET same == {k \in DOMAIN groups.set_values : k = key}
         IN  IF same # {} THEN groups.set_values[CHOOSE k \in same : TRUE]
             ELSE None

\* get_set_value for an element argument
get_set_value(groups, element) ==
    LET found_set == find_set(groups, element)
    IN  IF found_set # {} THEN get_set_value_of_set(groups, found_set) ELSE None

(***************************************************************************)
(* Inputs of the model                                                     *)
(***************************************************************************)
Ids == {"r1", "r2", "r3", "r4"}
Platforms == {"P1", "P2", "P3"}
\* feed adapters give each record id to one platform
PlatformOf ==
    [i \in Ids |-> IF i = "r2" THEN "P2" ELSE IF i = "r4" THEN "P3" ELSE "P1"]

TA == <<"T", "A">>
TB == <<"T", "B">>
ta == <<"t", "a">>
tb == <<"t", "b">>
Yes == <<"Y", "e", "s">>
nO == <<"n", "O">>

\* the ordinary quotes: both side orders, two price pairs, no draw, no date
CoreFeed ==
    {BetOption(PlatformOf[i], i, n[1], n[2], o[1], o[2], None, NoDate) :
        i \in {"r1", "r2", "r3"}, n \in {<<TA, TB>>, <<tb, ta>>},
        o \in {<<R(2, 1), R(2, 1)>>, <<R(5, 2), R(2, 1)>>}}

\* quotes with a draw price, with dates, and at the limits of the filter
EdgeFeed ==
    {BetOption("P2", "r2", TA, TB, R(5, 2), R(2, 1), R(20, 1), NoDate),
     BetOption("P2", "r2", TA, TB, R(9, 5), R(9, 5), None, NoDate),
     BetOption("P1", "r1", TA, TB, R(1, 100), R(100, 1), None, Today),
     BetOption("P1", "r1", TA, TB, R(2, 1), R(2, 1), None, Today),
     BetOption("P2", "r2", TA, TB, R(5, 2), R(2, 1), None, Today + 2),
     BetOption("P3", "r4", TA, TB, R(2, 1), R(2, 1), R(5, 1), NoDate),
     BetOption("P1", "r1", <<>>, TB, R(2, 1), R(2, 1), None, NoDate)}

\* quotes the garbage filter is there to reject
GarbageFeed ==
    {BetOption("P1", "r1", TA, TB, R(9, 1000), R(2, 1), None, NoDate),
     BetOption("P1", "r1", TA, TB, R(2, 1), R(101, 1), None, NoDate),
     BetOption("P1", "r1", Yes, TB, R(2, 1), R(2, 1), None, NoDate),
     BetOption("P1", "r1", TA, nO, R(2, 1), R(2, 1), None, NoDate),
     BetOption("P1", "r1", TA, ta, R(2, 1), R(2, 1), None, NoDate),
     BetOption("P1", "r1", TA, TB, R(2, 1), R(2, 1), None, Today - 1)}

Feed == CoreFeed \cup EdgeFeed \cup GarbageFeed

\* the dates update_date is called with
UpdateDates == {Today + 1}

(***************************************************************************)
(* State                                                                   *)
(***************************************************************************)
VARIABLES
    database,         \* Manager.database, its values in insertion order
    db_update_date,   \* Manager.db_update_date
    platform_counts,  \* Manager.platform_counts
    matches_found,    \* Manager.matches_found
    history,          \* Manager.history
    groups,           \* Manager.graph.groups: [data, set_values]
    error_counts,     \* Manager.error_counts, a Counter of error types
    locks,            \* database_lock, stats_lock, graph.lock: their holders
    threads,          \* the call each thread is in, its position and locals
    last,             \* the last call: its arguments and what it did
    nops              \* number of calls made

vars == <<database, db_update_date, platform_counts, matches_found,
          history, groups, error_counts, locks, threads, last, nops>>

max_history == 1000

\* dict access to Manager.database
DbIds(db) == {db[i].id : i \in 1..Len(db)}
DbGet(db, id) == db[CHOOSE i \in 1..Len(db) : db[i].id = id]
\* database[odd.id] = odd on a store that keeps every record it was given
DbPut_append(db, odd) == Append(db, odd)
\* database[odd.id] = odd: a known key keeps its place
DbPut(db, odd) ==
    IF odd.id \in DbIds(db)
    THEN [i \in 1..Len(db) |-> IF db[i].id = odd.id THEN odd ELSE db[i]]
    ELSE Append(db, odd)

\* Graph.values: it holds, for every id, the object Manager.database holds
values == [i \in DbIds(database) |-> DbGet(database, i)]

NoOdd == BetOption("", "", <<>>, <<>>, None, None, None, NoDate)

\* bestA, bestB and bestDraw of a call that compared no prices
NoBest == [A |-> None, B |-> None, Draw |-> None]

NoCall ==
    [op |-> "none", odd |-> NoOdd, date |-> NoDate, garbage |-> FALSE,
     odds |-> <<>>, sum |-> None, registered |-> FALSE, profit |-> None,
     prev_group |-> {}, prev_value |-> None, again |-> FALSE,
     notified |-> 0, best |-> NoBest, raised |-> "",
     normalize |-> [raw |-> <<>>, team_name |-> <<>>, sport |-> NoSport,
                    name |-> <<>>, fixed |-> FALSE, via |-> <<>>]]

\* the threads that call the Manager: the feed adapters and the web interface
Threads == {"t1", "t2"}

\* Manager.database_lock, Manager.stats_lock and Graph.lock
LockNames == {"database_lock", "stats_lock", "graph.lock"}
Free == "free"

\* a thread that is in no call of the Manager. pc is the line of manager.py
\* the thread is to execute next; odd is the record add_odd was given and
\* live says that Manager.database holds this very object; odds is odds[1:];
\* k and used are the position and the dict size of the iterator over
\* database.values(); a thread that has left a call keeps the name of the
\* operation in op, and ended tells how it left
Idle ==
    [pc |-> "idle", op |-> "none", odd |-> NoOdd, live |-> FALSE,
     event_id |-> "", date |-> NoDate, odds |-> <<>>, k |-> 0, used |-> 0,
     sum |-> None, ended |-> "none"]

Init ==
    /\ database = <<>>
    /\ db_update_date = [i \in {} |-> NoDate]
    /\ platform_counts = [p \in Platforms |-> 0]
    /\ matches_found = 0
    /\ history = <<>>
    /\ groups = [data |-> [i \in {} |-> {}], set_values |-> [k \in {} |-> None]]
    /\ error_counts = EmptyBag
    /\ locks = [l \in LockNames |-> Free]
    /\ threads = [t \in Threads |-> Idle]
    /\ last = NoCall
    /\ nops = 0

(***************************************************************************)
(* Graph (src/app/manager.py)                                              *)
(***************************************************************************)
\* Graph.add_node: values[node.id] = node; groups.add_set({node.id}, 0.0)
add_node(g, node) == add_set(g, {node.id}, Zero)

\* Graph.add_group: groups.add_set({odd.id for odd in odds_list}, value)
add_group(g, odds_list, value) ==
    add_set(g, {odds_list[i].id : i \in 1..Len(odds_list)}, value)

\* Graph.count_groups
count_groups(g) == Cardinality(DOMAIN g.data)

\* groups_ids of Graph.items: the distinct member sets
groups_ids(g) == {g.data[i] : i \in DOMAIN g.data}

\* what Graph.items does with one member set: the bag of the pairs it yields
items_of(g, ids) ==
    IF Cardinality(ids) = 1 THEN EmptyBag
    ELSE LET value == get_set_value_of_set(g, ids)
         IN  IF Truthy(value) /\ RGt(value, Zero)
             THEN SetToBag({<<ids, value>>})
             ELSE EmptyBag

RECURSIVE items_over(_, _)
items_over(g, todo) ==
    IF todo = {} THEN EmptyBag
    ELSE LET ids == CHOOSE x \in todo : TRUE
         IN  items_of(g, ids) (+) items_over(g, todo \ {ids})

\* Graph.items without groups_ids: one visit per key of groups.data
RECURSIVE items_per_member_over(_, _)
items_per_member_over(g, todo) ==
    IF todo = {} THEN EmptyBag
    ELSE LET i == CHOOSE x \in todo : TRUE
         IN  items_of(g, g.data[i]) (+) items_per_member_over(g, todo \ {i})

items_per_member(g) == items_per_member_over(g, DOMAIN g.data)

\* Graph.items: the bag of the (member ids, value) pairs it yields; the bets
\* of a pair are values[i] for its ids
items(g) == items_over(g, groups_ids(g))

(***************************************************************************)
(* Manager (src/app/manager.py)                                            *)
(***************************************************************************)
\* Manager._update_history
\* _update_history that cuts the list from its head: self.history[:limit]
update_history_keep_oldest(h, entry, limit) ==
    LET h1 == Append(h, entry)
    IN  IF Len(h1) > limit
        THEN SubSeq(h1, 1, limit)
        ELSE h1

\* Manager._update_history on a Manager whose max_history is limit
update_history_limited(h, entry, limit) ==
    LET h1 == Append(h, entry)
    IN  IF Len(h1) > limit
        THEN SubSeq(h1, Len(h1) - limit + 1, Len(h1))
        ELSE h1

update_history(h, entry) == update_history_limited(h, entry, max_history)

\* the date test of the scan: the record other is skipped
date_mismatch(odd, other) ==
    /\ odd.event_date # NoDate /\ other.event_date # NoDate
    /\ Abs(odd.event_date - other.event_date) > 1

\* the names the feed carries, as add_odd passes them to are_similar
FeedNames == {lower(r.optionA) : r \in Feed} \cup {lower(r.optionB) : r \in Feed}

\* are_similar over the names of the feed, computed once
similar == [a \in FeedNames, b \in FeedNames |-> are_similar(a, b)]

standard_match(odd, other) ==
    /\ similar[lower(odd.optionA), lower(other.optionA)]
    /\ similar[lower(odd.optionB), lower(other.optionB)]

reversed_match(odd, other) ==
    /\ similar[lower(odd.optionA), lower(other.optionB)]
    /\ similar[lower(odd.optionB), lower(other.optionA)]

\* the scan without the test of the dates
is_match_any_date(odd, other) ==
    /\ other.id # odd.id
    /\ odd.platform # other.platform
    /\ (standard_match(odd, other) \/ reversed_match(odd, other))

\* the scan without the test of the platforms
is_match_any_platform(odd, other) ==
    /\ other.id # odd.id
    /\ ~date_mismatch(odd, other)
    /\ (standard_match(odd, other) \/ reversed_match(odd, other))

\* the scan of add_odd appends other to odds
is_match(odd, other) ==
    /\ other.id # odd.id
    /\ odd.platform # other.platform
    /\ ~date_mismatch(odd, other)
    /\ (standard_match(odd, other) \/ reversed_match(odd, other))

\* the stored records after a scan that sets the flag on the record the
\* call brought, not on the records it matched
scan_database_mark_anchor(odd, db) ==
    [i \in 1..Len(db) |->
        IF db[i].id = odd.id
        THEN [db[i] EXCEPT !.reversed_match =
                 Flag(\E j \in 1..Len(db) :
                         /\ is_match(odd, db[j])
                         /\ reversed_match(odd, db[j])
                         /\ ~standard_match(odd, db[j]))]
        ELSE db[i]]

\* the stored records after the scan: a matched record carries its flag
scan_database(odd, db) ==
    [i \in 1..Len(db) |->
        IF is_match(odd, db[i])
        THEN [db[i] EXCEPT !.reversed_match =
                 Flag(reversed_match(odd, db[i]) /\ ~standard_match(odd, db[i]))]
        ELSE db[i]]

\* odds[1:] after the scan, in scan order
scan_matches(odd, db) ==
    LET matched(other) == is_match(odd, other)
    IN  SelectSeq(scan_database(odd, db), matched)

\* the loop over odds[1:] without the swap of the sides of a reversed record
RECURSIVE best_odds_unswapped(_, _)
best_odds_unswapped(best, rest) ==
    IF rest = <<>> THEN best
    ELSE LET o == Head(rest)
             bestDraw == IF Truthy(best.Draw) /\ Truthy(o.probaDraw)
                         THEN RMax(best.Draw, o.probaDraw)
                         ELSE POr(best.Draw, o.probaDraw)
         IN  best_odds_unswapped([A |-> RMax(best.A, o.probaA),
                                  B |-> RMax(best.B, o.probaB),
                                  Draw |-> bestDraw], Tail(rest))

\* the loop over odds[1:] that keeps the best prices
RECURSIVE best_odds(_, _)
best_odds(best, rest) ==
    IF rest = <<>> THEN best
    ELSE LET o == Head(rest)
             swap == o.reversed_match = "true"
             bestA == IF swap THEN RMax(best.A, o.probaB) ELSE RMax(best.A, o.probaA)
             bestB == IF swap THEN RMax(best.B, o.probaA) ELSE RMax(best.B, o.probaB)
             bestDraw == IF Truthy(best.Draw) /\ Truthy(o.probaDraw)
                         THEN RMax(best.Draw, o.probaDraw)
                         ELSE POr(best.Draw, o.probaDraw)
         IN  best_odds([A |-> bestA, B |-> bestB, Draw |-> bestDraw], Tail(rest))

sum_inverse_odds(best) ==
    RAdd(RAdd(RInv(best.A), RInv(best.B)),
         IF Truthy(best.Draw) THEN RInv(best.Draw) ELSE Zero)

\* the margin without the factor 100
profit_fraction(sum) == RSub(One, sum)

profit_percentage(sum) == RMul(RSub(One, sum), Hundred)

\* the test with <= in place of <
is_arbitrage_or_even(sum) == RLe(sum, One)

\* the test "if sum_inverse_odds < 1" of add_odd
is_arbitrage(sum) == RLt(sum, One)

\* the history entry of Manager.add_arbitrage for odds_list
history_entry(profit, odds_list) ==
    [match |-> <<odds_list[1].optionA, odds_list[1].optionB>>,
     profit |-> profit,
     platforms |-> [i \in 1..Len(odds_list) |-> odds_list[i].platform]]

\* the attributes of the Manager a call reads and writes, as one record
self ==
    [database |-> database, db_update_date |-> db_update_date,
     platform_counts |-> platform_counts, matches_found |-> matches_found,
     history |-> history, groups |-> groups, error_counts |-> error_counts]

\* add_odd counting every record it accepts, a stored id included
count_platform_every_call(counts, db, odd) ==
    [counts EXCEPT ![odd.platform] = @ + 1]

\* add_odd: platform_counts[odd.platform] += 1 if odd.id is not in database
count_platform(counts, db, odd) ==
    IF odd.id \notin DbIds(db)
    THEN [counts EXCEPT ![odd.platform] = @ + 1]
    ELSE counts

\* Manager.add_match
add_match(found) == found + 1

\* add_odd: "if matches_found > 0: self.add_match()", a call with several
\* matches counted as well
count_match_each(found, odds) == found + (Len(odds) - 1)

\* add_odd: "if matches_found > 0: self.add_match()"
count_match(found, odds) ==
    IF Len(odds) > 1 THEN add_match(found) ELSE found

\* add_odd that stores the record with the date the feed gave it
patch_date_never(odd, dates) == odd

\* add_odd: odd.event_date = odd.event_date or self.db_update_date.get(odd.id)
patch_date(odd, dates) ==
    [odd EXCEPT !.event_date =
        IF odd.event_date # NoDate THEN odd.event_date
        ELSE IF odd.id \in DOMAIN dates THEN dates[odd.id] ELSE NoDate]

\* add_arbitrage returning False for an opportunity that is already tracked
\* with a profit at least as high
add_arbitrage_if_new(g, odds_list, profit) ==
    LET ids == {odds_list[i].id : i \in 1..Len(odds_list)}
    IN  ~(/\ find_set(g, odds_list[1].id) = ids
          /\ RLe(profit, POr(get_set_value(g, odds_list[1].id), Zero)))

\* the value Manager.add_arbitrage returns (is_new): add_odd prints its
\* notification unless it is False
add_arbitrage(g, odds_list, profit) == TRUE

\* Manager.add_odd once odd passed the filter: dated is odd with its date
\* patched, db1 the database holding it, odds the anchor and its matches,
\* best the best prices and sum the sum of their inverses (None without a
\* match)
add_odd_accepted(m, odd, dated, db1, odds, best, sum) ==
    \* lines 629-631 divide the stakes by sum_inverse_odds before the
    \* opportunity is registered: ZeroDivisionError when the sum is 0
    LET raises == Len(odds) > 1 /\ is_arbitrage(sum) /\ sum = Zero
        found == Len(odds) > 1 /\ is_arbitrage(sum) /\ ~raises
        profit == IF found THEN profit_percentage(sum) ELSE None
        nodes == add_node(m.groups, dated)
        merged == IF found
                  THEN UNION {add_group(g1, odds, profit) : g1 \in nodes}
                  ELSE nodes
    IN {[self |->
           [database |-> scan_database(dated, db1),
            db_update_date |-> m.db_update_date,
            platform_counts |-> count_platform(m.platform_counts, m.database, odd),
            matches_found |-> count_match(m.matches_found, odds),
            history |-> IF found
                        THEN update_history(m.history, history_entry(profit, odds))
                        ELSE m.history,
            groups |-> g2,
            error_counts |-> m.error_counts],
         call |->
           [op |-> "add_odd", odd |-> odd, date |-> NoDate,
            garbage |-> FALSE,
            odds |-> [i \in 1..Len(odds) |-> odds[i].id],
            sum |-> sum, registered |-> found, profit |-> profit,
            prev_group |-> find_set(m.groups, odd.id),
            prev_value |-> get_set_value(m.groups, odd.id),
            again |-> FALSE,
            notified |-> IF found /\ add_arbitrage(m.groups, odds, profit)
                         THEN 1 ELSE 0,
            best |-> best, normalize |-> NoCall.normalize,
            raised |-> IF raises THEN "ZeroDivisionError" ELSE ""]] :
        g2 \in merged}

\* Manager.add_odd(odd) on a Manager with attributes m: the Managers it can
\* leave (one for each order the sets can be iterated in), with the record
\* of the call
add_odd_from(m, odd) ==
    IF is_garbage(odd)
    THEN {[self |-> m,
           call |-> [NoCall EXCEPT !.op = "add_odd", !.odd = odd,
                                   !.garbage = TRUE]]}
    ELSE UNION {UNION {UNION {UNION {UNION {
           add_odd_accepted(m, odd, dated, db1, odds, best, sum) :
             sum \in {IF Len(odds) > 1 THEN sum_inverse_odds(best) ELSE None}} :
             best \in {IF Len(odds) > 1
                       THEN best_odds([A |-> dated.probaA, B |-> dated.probaB,
                                       Draw |-> dated.probaDraw], Tail(odds))
                       ELSE NoBest}} :
             odds \in {<<dated>> \o scan_matches(dated, db1)}} :
             db1 \in {DbPut(m.database, dated)}} :
             dated \in {patch_date(odd, m.db_update_date)}}

\* a Manager as __init__ leaves it
NewManager ==
    [database |-> <<>>, db_update_date |-> [i \in {} |-> NoDate],
     platform_counts |-> [p \in Platforms |-> 0], matches_found |-> 0,
     history |-> <<>>,
     groups |-> [data |-> [i \in {} |-> {}], set_values |-> [k \in {} |-> None]],
     error_counts |-> EmptyBag]

\* the Managers that add_odd, called for the records of feed in their
\* order, can leave of a Manager m
RECURSIVE add_odds_from(_, _)
add_odds_from(m, feed) ==
    IF feed = <<>> THEN {m}
    ELSE UNION {add_odds_from(r.self, Tail(feed)) :
                  r \in add_odd_from(m, Head(feed))}

\* Manager.add_odd(odd), as one of at most bound calls
add_odd_within(odd, bound) ==
    /\ nops < bound
    /\ nops' = nops + 1
    /\ \E r \in add_odd_from(self, odd) :
         /\ database' = r.self.database
         /\ db_update_date' = r.self.db_update_date
         /\ platform_counts' = r.self.platform_counts
         /\ matches_found' = r.self.matches_found
         /\ history' = r.self.history
         /\ groups' = r.self.groups
         /\ error_counts' = r.self.error_counts
         /\ UNCHANGED <<locks, threads>>
         /\ last' = [r.call EXCEPT !.again = (last.op = "add_odd" /\ last.odd = odd)]

\* Manager.add_odd(odd)
add_odd(odd) == add_odd_within(odd, MaxOps)

\* Manager.update_date(event_id, start_time)
update_date(event_id, start_time) ==
    /\ nops < MaxOps
    /\ nops' = nops + 1
    /\ db_update_date' = Put(db_update_date, event_id, start_time)
    /\ database' = [i \in 1..Len(database) |->
                      IF database[i].id = event_id
                      THEN [database[i] EXCEPT !.event_date = start_time]
                      ELSE database[i]]
    /\ last' = [NoCall EXCEPT !.op = "update_date", !.date = start_time,
                              !.odd = [NoOdd EXCEPT !.id = event_id]]
    /\ UNCHANGED <<platform_counts, matches_found, history, groups,
                   error_counts, locks, threads>>

AddOdd == \E odd \in Feed : add_odd(odd)
UpdateDate == \E event_id \in Ids, start_time \in UpdateDates :
                 update_date(event_id, start_time)

Next == AddOdd \/ UpdateDate

Spec == Init /\ [][Next]_vars

(***************************************************************************)
(* The history on its own: _update_history called for a sequence of        *)
(* registrations on a Manager whose max_history is HistoryLimit, so that   *)
(* the list overflows within a few calls                                   *)
(***************************************************************************)
HistoryLimit == 3
MaxAppends == 5

\* the profits of the registrations
HistoryProfits == {R(5, 1), R(10, 1), R(20, 1), R(59, 1)}

\* the entries add_arbitrage hands to _update_history
HistoryEntries ==
    {history_entry(p, <<BetOption("P2", "r2", TA, TB, R(5, 2), R(2, 1), None, NoDate),
                        BetOption("P1", "r1", TA, TB, R(2, 1), R(2, 1), None, NoDate)>>) :
        p \in HistoryProfits}

\* Manager._update_history(arb_info)
_update_history(entry) ==
    /\ nops < MaxAppends
    /\ nops' = nops + 1
    /\ history' = update_history_limited(history, entry, HistoryLimit)
    /\ last' = [NoCall EXCEPT !.op = "_update_history", !.profit = entry.profit]
    /\ UNCHANGED <<database, db_update_date, platform_counts, matches_found,
                   groups, error_counts, locks, threads>>

NextHistory == \E entry \in HistoryEntries : _update_history(entry)

SpecHistory == Init /\ [][NextHistory]_vars

(***************************************************************************)
(* update_date called with any date a feed can send, the start of an event *)
(* that began yesterday included                                           *)
(***************************************************************************)
NextStarted ==
    \/ AddOdd
    \/ \E event_id \in Ids, start_time \in {Today - 1, Today + 1} :
          update_date(event_id, start_time)

SpecStarted == Init /\ [][NextStarted]_vars

(***************************************************************************)
(* normalize_team_name called with a name and a sport, the module having   *)
(* been loaded with one of a few alias files: main names and aliases in    *)
(* upper case, a name that is the alias of another main name and the other *)
(* way round, two main names that differ by case, the same name under two  *)
(* sports, an alias with a space at its end, and no table at all           *)
(***************************************************************************)
MaxNormalize == 2

\* Manager.normalize_team_name(team_name, sport) after the module was loaded
\* with the alias file raw
normalize_call(raw, team_name, sport) ==
    /\ nops < MaxNormalize
    /\ nops' = nops + 1
    /\ \E r \in {normalize_team_name_from(load_team_aliases(raw), team_name, sport, 0)} :
          last' = [NoCall EXCEPT !.op = "normalize_team_name",
                                 !.normalize = [raw |-> raw, team_name |-> team_name,
                                                sport |-> sport, name |-> r.name,
                                                fixed |-> r.fixed, via |-> r.via]]
    /\ UNCHANGED <<database, db_update_date, platform_counts, matches_found,
                   history, groups, error_counts, locks, threads>>

NextNormalize ==
    \E raw \in {<<>>,
                 [sp \in {"s1"} |-> << <<TA, {tb}>>, <<TB, {ta}>> >>],
                 [sp \in {"s1"} |->
                     << <<ta, {}>>, <<TA, {TB, <<"t", "c", " ">>}>> >>],
                 [sp \in {"s1", "s2"} |->
                     IF sp = "s1" THEN << <<ta, {TB}>> >>
                     ELSE << <<tb, {TA, <<"t", "c">>}>> >>]},
       team_name \in {ta, TA, tb \o <<" ">>, <<"T", "b">>, <<"t", "c">>,
                      <<"t", "c", " ">>, <<"t", "e">>},
       sport \in {NoSport, "s1", "s2", "s3"} :
        normalize_call(raw, team_name, sport)

SpecNormalize == Init /\ [][NextNormalize]_vars

(***************************************************************************)
(* add_odd over records that carry a draw price: above 1, between 0 and 1, *)
(* zero, and below zero                                                    *)
(***************************************************************************)
DrawFeed ==
    {BetOption("P1", "r1", TA, TB, R(2, 1), R(2, 1), None, NoDate),
     BetOption("P1", "r1", TA, TB, R(2, 1), R(2, 1), R(3, 1), NoDate),
     BetOption("P2", "r2", TA, TB, R(5, 2), R(2, 1), None, NoDate),
     BetOption("P2", "r2", TA, TB, R(5, 1), R(5, 1), R(5, 1), NoDate),
     BetOption("P2", "r2", TA, TB, R(5, 1), R(5, 1), R(1, 2), NoDate),
     BetOption("P2", "r2", TA, TB, R(2, 1), R(2, 1), Zero, NoDate),
     BetOption("P2", "r2", TA, TB, R(2, 1), R(2, 1), R(-1, 2), NoDate),
     BetOption("P3", "r4", TA, TB, R(2, 1), R(2, 1), R(-1, 1), NoDate),
     BetOption("P3", "r4", TA, TB, R(100, 1), R(100, 1), None, NoDate)}

NextDraw == \E odd \in DrawFeed : add_odd(odd)

SpecDraw == Init /\ [][NextDraw]_vars

(***************************************************************************)
(* A longer run of add_odd over few records: three records with the same   *)
(* sides on two platforms, and the second of them quoted again at a price  *)
(* that is no arbitrage                                                    *)
(***************************************************************************)
MaxIngests == 4

ReingestFeed ==
    {BetOption("P1", "r1", TA, TB, R(2, 1), R(2, 1), None, NoDate),
     BetOption("P2", "r2", TA, TB, R(5, 2), R(2, 1), None, NoDate),
     BetOption("P1", "r3", TA, TB, R(2, 1), R(2, 1), None, NoDate),
     BetOption("P2", "r2", TA, TB, R(2, 1), R(2, 1), None, NoDate)}

NextReingest == \E odd \in ReingestFeed : add_odd_within(odd, MaxIngests)

SpecReingest == Init /\ [][NextReingest]_vars

(***************************************************************************)
(* The Manager called from several threads. A call is a sequence of steps: *)
(* one for each acquisition of a lock and one for each access to the       *)
(* shared attributes between two acquisitions. A step is named after the   *)
(* line of manager.py it starts at.                                        *)
(***************************************************************************)
MaxCalls == 3

\* the records the threads bring: a pair that matches reversed and is an
\* arbitrage, a record of a third platform with the sides in the order of
\* the second, and a record the filter rejects
ThreadFeed ==
    {BetOption("P1", "r1", TA, TB, R(2, 1), R(2, 1), None, NoDate),
     BetOption("P2", "r2", tb, ta, R(5, 2), R(2, 1), None, NoDate),
     BetOption("P3", "r4", tb, ta, R(2, 1), R(2, 1), R(5, 1), NoDate),
     BetOption("P1", "r1", TA, nO, R(2, 1), R(2, 1), None, NoDate)}

\* "with lock:" entered and left by thread t
acquire(t, l) == locks[l] = Free /\ locks' = [locks EXCEPT ![l] = t]
release(t, l) == locks' = [locks EXCEPT ![l] = Free]

\* an exception leaves every "with" block the thread is in
release_all(t) == locks' = [l \in LockNames |-> IF locks[l] = t THEN Free ELSE locks[l]]

\* the locks thread t holds
Holds(t) == {l \in LockNames : locks[l] = t}

\* thread t goes on at line pc
goto(t, pc) == threads' = [threads EXCEPT ![t].pc = pc]

\* the call of thread t ends: it returns, or an exception leaves it
end_call(t, how) ==
    threads' = [threads EXCEPT ![t] = [Idle EXCEPT !.op = threads[t].op, !.ended = how]]

\* thread t enters a call of operation op at line pc
enter(t, op, pc) ==
    /\ threads[t].pc = "idle"
    /\ nops < MaxCalls
    /\ nops' = nops + 1
    /\ threads' = [threads EXCEPT ![t] = [Idle EXCEPT !.op = op, !.pc = pc]]

\* a reference to a record: to the object Manager.database holds for id, or
\* to an object the database has dropped, which nothing changes any more
LiveRef(id) == [live |-> TRUE, id |-> id, rec |-> NoOdd]
Deref(db, ref) == IF ref.live THEN DbGet(db, ref.id) ELSE ref.rec

\* the record thread t brought, as it is now
Anchor(t) ==
    IF threads[t].live THEN DbGet(database, threads[t].odd.id) ELSE threads[t].odd

\* odds, the list add_odd of thread t has built, as its objects are now
OddsOf(t) ==
    <<Anchor(t)>> \o [i \in 1..Len(threads[t].odds) |-> Deref(database, threads[t].odds[i])]

\* database[id] is rebound: a thread that refers to the object bound before
\* keeps that object
Rebound(th, id) ==
    [th EXCEPT
       !.odd = IF th.live /\ th.odd.id = id THEN DbGet(database, id) ELSE @,
       !.live = IF th.odd.id = id THEN FALSE ELSE @,
       !.odds = [i \in 1..Len(@) |->
                   IF @[i].live /\ @[i].id = id
                   THEN [live |-> FALSE, id |-> id, rec |-> DbGet(database, id)]
                   ELSE @[i]]]

\* add_odd, lines 506-512: the filter, and the date patched from
\* db_update_date
add_odd_l506(t, odd) ==
    /\ threads[t].pc = "idle"
    /\ nops < MaxCalls
    /\ nops' = nops + 1
    /\ threads' = [threads EXCEPT ![t] =
                     IF is_garbage(odd)
                     THEN [Idle EXCEPT !.op = "add_odd", !.ended = "returned"]
                     ELSE [Idle EXCEPT !.op = "add_odd", !.pc = "l514",
                                       !.odd = patch_date(odd, db_update_date)]]
    /\ UNCHANGED <<database, db_update_date, platform_counts, matches_found,
                   history, groups, error_counts, locks, last>>

\* line 514: if not odd.id in self.database
add_odd_l514(t) ==
    /\ threads[t].pc = "l514"
    /\ goto(t, IF threads[t].odd.id \notin DbIds(database) THEN "l515" ELSE "l519")
    /\ UNCHANGED <<database, db_update_date, platform_counts, matches_found,
                   history, groups, error_counts, locks, last, nops>>

\* line 515: with self.database_lock
add_odd_l515(t) ==
    /\ threads[t].pc = "l515"
    /\ acquire(t, "database_lock")
    /\ goto(t, "l516")
    /\ UNCHANGED <<database, db_update_date, platform_counts, matches_found,
                   history, groups, error_counts, last, nops>>

\* line 516: self.platform_counts[odd.platform] += 1
add_odd_l516(t) ==
    /\ threads[t].pc = "l516"
    /\ platform_counts' = [platform_counts EXCEPT ![threads[t].odd.platform] = @ + 1]
    /\ release(t, "database_lock")
    /\ goto(t, "l519")
    /\ UNCHANGED <<database, db_update_date, matches_found, history, groups,
                   error_counts, last, nops>>

\* line 519: self.graph.add_node(odd) enters "with self.lock" (line 166)
add_odd_l519(t) ==
    /\ threads[t].pc = "l519"
    /\ acquire(t, "graph.lock")
    /\ goto(t, "l167")
    /\ UNCHANGED <<database, db_update_date, platform_counts, matches_found,
                   history, groups, error_counts, last, nops>>

\* lines 167-168: the body of Graph.add_node
add_odd_l167(t) ==
    /\ threads[t].pc = "l167"
    /\ groups' \in add_node(groups, threads[t].odd)
    /\ release(t, "graph.lock")
    /\ goto(t, "l520")
    /\ UNCHANGED <<database, db_update_date, platform_counts, matches_found,
                   history, error_counts, last, nops>>

\* line 520: self.database[odd.id] = odd, under no lock
add_odd_l520(t) ==
    /\ threads[t].pc = "l520"
    /\ database' = DbPut(database, threads[t].odd)
    /\ threads' = [u \in Threads |->
                     IF u = t
                     THEN [threads[t] EXCEPT !.live = TRUE, !.pc = "l525"]
                     ELSE IF threads[t].odd.id \in DbIds(database)
                          THEN Rebound(threads[u], threads[t].odd.id)
                          ELSE threads[u]]
    /\ UNCHANGED <<db_update_date, platform_counts, matches_found, history,
                   groups, error_counts, locks, last, nops>>

\* lines 525-526: with self.database_lock, and the iterator of
\* "for other in self.database.values()"
add_odd_l525(t) ==
    /\ threads[t].pc = "l525"
    /\ acquire(t, "database_lock")
    /\ threads' = [threads EXCEPT ![t].pc = "l526", ![t].k = 1,
                                  ![t].used = Len(database)]
    /\ UNCHANGED <<database, db_update_date, platform_counts, matches_found,
                   history, groups, error_counts, last, nops>>

\* one turn of a loop that passes over every record
add_odd_l526_passes_over(t) ==
    /\ threads[t].pc = "l526"
    /\ Len(database) = threads[t].used
    /\ threads[t].k <= Len(database)
    /\ threads' = [threads EXCEPT ![t].k = @ + 1]
    /\ UNCHANGED <<database, db_update_date, platform_counts, matches_found,
                   history, groups, error_counts, locks, last, nops>>

\* lines 526-573: one turn of the loop, on the record at position k
add_odd_l526(t) ==
    /\ threads[t].pc = "l526"
    /\ Len(database) = threads[t].used
    /\ threads[t].k <= Len(database)
    /\ LET other == database[threads[t].k]
           odd == Anchor(t)
       IN  IF is_match(odd, other)
           THEN /\ database' =
                     [database EXCEPT ![threads[t].k].reversed_match =
                        Flag(reversed_match(odd, other) /\ ~standard_match(odd, other))]
                /\ threads' = [threads EXCEPT
                                 ![t].k = @ + 1,
                                 ![t].odds = Append(@, LiveRef(other.id))]
           ELSE /\ database' = database
                /\ threads' = [threads EXCEPT ![t].k = @ + 1]
    /\ UNCHANGED <<db_update_date, platform_counts, matches_found, history,
                   groups, error_counts, locks, last, nops>>

\* line 526: the iterator finds that the dict has another size than when it
\* was made: RuntimeError, dictionary changed size during iteration
add_odd_l526_raise(t) ==
    /\ threads[t].pc = "l526"
    /\ Len(database) # threads[t].used
    /\ release_all(t)
    /\ end_call(t, "raised")
    /\ UNCHANGED <<database, db_update_date, platform_counts, matches_found,
                   history, groups, error_counts, last, nops>>

\* line 526: the iterator is exhausted; the lock is released, and a call
\* that matched nothing returns (line 583, len(odds) > 1 is false)
add_odd_l526_end(t) ==
    /\ threads[t].pc = "l526"
    /\ Len(database) = threads[t].used
    /\ threads[t].k > Len(database)
    /\ release(t, "database_lock")
    /\ IF threads[t].odds # <<>> THEN goto(t, "l576") ELSE end_call(t, "returned")
    /\ UNCHANGED <<database, db_update_date, platform_counts, matches_found,
                   history, groups, error_counts, last, nops>>

\* line 576: self.add_match() enters "with self.stats_lock" (line 382)
add_odd_l576(t) ==
    /\ threads[t].pc = "l576"
    /\ acquire(t, "stats_lock")
    /\ goto(t, "l383")
    /\ UNCHANGED <<database, db_update_date, platform_counts, matches_found,
                   history, groups, error_counts, last, nops>>

\* lines 383-385: the body of add_match
add_odd_l383(t) ==
    /\ threads[t].pc = "l383"
    /\ matches_found' = add_match(matches_found)
    /\ release(t, "stats_lock")
    /\ goto(t, "l583")
    /\ UNCHANGED <<database, db_update_date, platform_counts, history, groups,
                   error_counts, last, nops>>

\* lines 583-631: the best prices and the test sum_inverse_odds < 1
add_odd_l583(t) ==
    /\ threads[t].pc = "l583"
    /\ \E odds \in {OddsOf(t)} :
       \E best \in {best_odds([A |-> odds[1].probaA, B |-> odds[1].probaB,
                               Draw |-> odds[1].probaDraw], Tail(odds))} :
       \E sum \in {sum_inverse_odds(best)} :
           IF is_arbitrage(sum)
           THEN IF sum = Zero
                THEN end_call(t, "raised")
                ELSE threads' = [threads EXCEPT ![t].pc = "l292", ![t].sum = sum]
           ELSE end_call(t, "returned")
    /\ UNCHANGED <<database, db_update_date, platform_counts, matches_found,
                   history, groups, error_counts, locks, last, nops>>

\* line 292: add_arbitrage calls graph.add_group, which enters
\* "with self.lock" (line 171)
add_odd_l292(t) ==
    /\ threads[t].pc = "l292"
    /\ acquire(t, "graph.lock")
    /\ goto(t, "l172")
    /\ UNCHANGED <<database, db_update_date, platform_counts, matches_found,
                   history, groups, error_counts, last, nops>>

\* lines 172-176: the body of Graph.add_group
add_odd_l172(t) ==
    /\ threads[t].pc = "l172"
    /\ groups' \in add_group(groups, OddsOf(t), profit_percentage(threads[t].sum))
    /\ release(t, "graph.lock")
    /\ goto(t, "l295")
    /\ UNCHANGED <<database, db_update_date, platform_counts, matches_found,
                   history, error_counts, last, nops>>

\* lines 295-305 and 636-692: the history entry, and the notification
add_odd_l295(t) ==
    /\ threads[t].pc = "l295"
    /\ history' = update_history(history,
                     history_entry(profit_percentage(threads[t].sum), OddsOf(t)))
    /\ end_call(t, "returned")
    /\ UNCHANGED <<database, db_update_date, platform_counts, matches_found,
                   groups, error_counts, locks, last, nops>>

\* update_date, line 252: with self.database_lock
update_date_l252(t, event_id, start_time) ==
    /\ threads[t].pc = "idle"
    /\ nops < MaxCalls
    /\ nops' = nops + 1
    /\ acquire(t, "database_lock")
    /\ threads' = [threads EXCEPT ![t] =
                     [Idle EXCEPT !.op = "update_date", !.pc = "l253",
                                  !.event_id = event_id, !.date = start_time]]
    /\ UNCHANGED <<database, db_update_date, platform_counts, matches_found,
                   history, groups, error_counts, last>>

\* lines 253-256: the body of update_date
update_date_l253(t) ==
    /\ threads[t].pc = "l253"
    /\ db_update_date' = Put(db_update_date, threads[t].event_id, threads[t].date)
    /\ database' = [i \in 1..Len(database) |->
                      IF database[i].id = threads[t].event_id
                      THEN [database[i] EXCEPT !.event_date = threads[t].date]
                      ELSE database[i]]
    /\ release(t, "database_lock")
    /\ end_call(t, "returned")
    /\ UNCHANGED <<platform_counts, matches_found, history, groups,
                   error_counts, last, nops>>

\* size, line 502: with self.database_lock
size_l502(t) ==
    /\ enter(t, "size", "l503")
    /\ acquire(t, "database_lock")
    /\ UNCHANGED <<database, db_update_date, platform_counts, matches_found,
                   history, groups, error_counts, last>>

\* line 503: return len(self.database)
size_l503(t) ==
    /\ threads[t].pc = "l503"
    /\ release(t, "database_lock")
    /\ end_call(t, "returned")
    /\ UNCHANGED <<database, db_update_date, platform_counts, matches_found,
                   history, groups, error_counts, last, nops>>

\* get_detailed_stats, line 453: with self.stats_lock
get_detailed_stats_l453(t) ==
    /\ enter(t, "get_detailed_stats", "l454")
    /\ acquire(t, "stats_lock")
    /\ UNCHANGED <<database, db_update_date, platform_counts, matches_found,
                   history, groups, error_counts, last>>

\* line 454: get_collection_rate() enters "with self.database_lock" (line
\* 406) and makes the iterator of its list comprehension (line 408)
get_detailed_stats_l454(t) ==
    /\ threads[t].pc = "l454"
    /\ acquire(t, "database_lock")
    /\ threads' = [threads EXCEPT ![t].pc = "l408", ![t].used = Len(database)]
    /\ UNCHANGED <<database, db_update_date, platform_counts, matches_found,
                   history, groups, error_counts, last, nops>>

\* lines 407-417: the comprehension over database.values() runs to its end
\* and get_collection_rate returns; a record stored after the last item was
\* fetched does not disturb it
get_detailed_stats_l408(t) ==
    /\ threads[t].pc = "l408"
    /\ release(t, "database_lock")
    /\ goto(t, "l457")
    /\ UNCHANGED <<database, db_update_date, platform_counts, matches_found,
                   history, groups, error_counts, last, nops>>

\* line 408: the dict has another size than when the iterator was made:
\* RuntimeError, which leaves both "with" blocks
get_detailed_stats_l408_raise(t) ==
    /\ threads[t].pc = "l408"
    /\ Len(database) # threads[t].used
    /\ release_all(t)
    /\ end_call(t, "raised")
    /\ UNCHANGED <<database, db_update_date, platform_counts, matches_found,
                   history, groups, error_counts, last, nops>>

\* line 457: "total_odds": self.size() enters "with self.database_lock"
get_detailed_stats_l457(t) ==
    /\ threads[t].pc = "l457"
    /\ acquire(t, "database_lock")
    /\ goto(t, "l503s")
    /\ UNCHANGED <<database, db_update_date, platform_counts, matches_found,
                   history, groups, error_counts, last, nops>>

\* line 503, called from line 457: return len(self.database)
get_detailed_stats_l503(t) ==
    /\ threads[t].pc = "l503s"
    /\ release(t, "database_lock")
    /\ goto(t, "l473")
    /\ UNCHANGED <<database, db_update_date, platform_counts, matches_found,
                   history, groups, error_counts, last, nops>>

\* lines 458-473: the rest of the dictionary is read and returned
get_detailed_stats_l473(t) ==
    /\ threads[t].pc = "l473"
    /\ release(t, "stats_lock")
    /\ end_call(t, "returned")
    /\ UNCHANGED <<database, db_update_date, platform_counts, matches_found,
                   history, groups, error_counts, last, nops>>

\* get_active_arbitrages, line 356: graph.items() enters "with self.lock"
\* (line 183)
get_active_arbitrages_l356(t) ==
    /\ enter(t, "get_active_arbitrages", "l188")
    /\ acquire(t, "graph.lock")
    /\ UNCHANGED <<database, db_update_date, platform_counts, matches_found,
                   history, groups, error_counts, last>>

\* lines 188-209 and 357-378: the generator is run to its end, the lock is
\* released and the list is returned
get_active_arbitrages_l188(t) ==
    /\ threads[t].pc = "l188"
    /\ release(t, "graph.lock")
    /\ end_call(t, "returned")
    /\ UNCHANGED <<database, db_update_date, platform_counts, matches_found,
                   history, groups, error_counts, last, nops>>

\* a thread enters a call
Call(t) ==
    \/ \E odd \in ThreadFeed : add_odd_l506(t, odd)
    \/ \E event_id \in {"r1"}, start_time \in UpdateDates :
          update_date_l252(t, event_id, start_time)
    \/ size_l502(t)
    \/ get_detailed_stats_l453(t)
    \/ get_active_arbitrages_l356(t)

\* a thread that is in a call takes the next step of it
Step(t) ==
    \/ add_odd_l514(t)
    \/ add_odd_l515(t)
    \/ add_odd_l516(t)
    \/ add_odd_l519(t)
    \/ add_odd_l167(t)
    \/ add_odd_l520(t)
    \/ add_odd_l525(t)
    \/ add_odd_l526(t)
    \/ add_odd_l526_raise(t)
    \/ add_odd_l526_end(t)
    \/ add_odd_l576(t)
    \/ add_odd_l383(t)
    \/ add_odd_l583(t)
    \/ add_odd_l292(t)
    \/ add_odd_l172(t)
    \/ add_odd_l295(t)
    \/ update_date_l253(t)
    \/ size_l503(t)
    \/ get_detailed_stats_l454(t)
    \/ get_detailed_stats_l408(t)
    \/ get_detailed_stats_l408_raise(t)
    \/ get_detailed_stats_l457(t)
    \/ get_detailed_stats_l503(t)
    \/ get_detailed_stats_l473(t)
    \/ get_active_arbitrages_l188(t)

NextThreads == \E t \in Threads : Call(t) \/ Step(t)

SpecThreads == Init /\ [][NextThreads]_vars

\* the scheduler lets every thread that can take a step take one in the end
FairThreads == SpecThreads /\ \A t \in Threads : WF_vars(Step(t))

(***************************************************************************)
(* Read-side operations and notions the properties are stated with         *)
(***************************************************************************)
\* get_active_arbitrages taking the date of the first bet, dated or not
match_date_of_first_bet(vals, ids) ==
    {vals[i].event_date : i \in ids \cap DOMAIN vals}

\* the loop "for bet in bets: if bet.event_date: match_date = ...; break" of
\* get_active_arbitrages: bets follows the iteration order of a frozenset,
\* so the first dated bet can be any dated member; NoDate is "Unknown date"
match_date(vals, ids) ==
    LET dated == {i \in ids \cap DOMAIN vals : vals[i].event_date # NoDate}
    IN  IF dated = {} THEN {NoDate}
        ELSE {vals[i].event_date : i \in dated}

\* Manager.get_active_arbitrages: the entries the list it returns can hold,
\* one for each pair Graph.items yields
get_active_arbitrages(g, vals) ==
    UNION {{[ids |-> p[1], profit |-> p[2], date |-> d] :
              d \in match_date(vals, p[1])} :
           p \in {q \in BagToSet(items(g)) : q[2] # None}}

\* Manager.arbitrage_count
arbitrage_count == count_groups(groups)

\* GroupStore.groupOf and GroupStore.valueOf of the specification
groupOf(x) == find_set(groups, x)
valueOf(x) == get_set_value(groups, x)

(***************************************************************************)
(* Properties                                                              *)
(***************************************************************************)
\* the ids of the odds list of a call: the anchor and the matched records
Members(call) == {call.odds[i] : i \in 1..Len(call.odds)}

\* the last step was an add_odd call whose scan found a match
ScanMatched(call) == call.op = "add_odd" /\ Len(call.odds) > 1

\* C1: the group store is a partition of the known ids: every member y of
\* groupOf(x) is known and has groupOf(y) = groupOf(x), so no id is in two
\* different groups.
C1_GroupsPartition ==
    \A x \in DOMAIN groups.data :
        \A y \in groups.data[x] :
            y \in DOMAIN groups.data /\ groups.data[y] = groups.data[x]

\* C2: the merge of a registration unions every group that holds one of the
\* ids it is given: afterwards every member of each of those groups and every
\* given id is in one single group, the union of all of them.
C2_MergeUnionsAllGroups ==
    [][(ScanMatched(last') /\ history' # history) =>
         \A g1 \in add_node(groups, last'.odd) :
            LET ids == Members(last')
                touched == ids \cup UNION {g1.data[i] : i \in ids}
            IN  \A x \in touched : groups'.data[x] = touched]_vars

\* C8: the value map holds exactly one value per current group: its keys are
\* the current member sets, and no value stays attached to the member set of
\* a group that a merge has superseded.
C8_OneValuePerGroup ==
    DOMAIN groups.set_values = groups_ids(groups)

\* C10: valueOf answers the same for every member id of a group as for the
\* full member set of that group.
C10_ValueByMemberOrBySet ==
    \A x \in DOMAIN groups.data :
        \A y \in groups.data[x] :
            get_set_value(groups, y) = get_set_value_of_set(groups, groups.data[x])

\* the largest of a non-empty set of prices
RMaxSet(S) == CHOOSE m \in S : \A x \in S : RLe(x, m)

\* the price a record of the odds list offers on the anchor's side A / side B
SideA(o) == IF o.reversed_match = "true" THEN o.probaB ELSE o.probaA
SideB(o) == IF o.reversed_match = "true" THEN o.probaA ELSE o.probaB

\* sum = 1/bestA + 1/bestB (+ 1/bestDraw) over the records of a call, read
\* from the store db the call has left
SumOf(db, call) ==
    LET recs == {DbGet(db, i) : i \in Members(call)}
        draws == {o.probaDraw : o \in {r \in recs : Truthy(r.probaDraw)}}
    IN  RAdd(RAdd(RInv(RMaxSet({SideA(o) : o \in recs})),
                  RInv(RMaxSet({SideB(o) : o \in recs}))),
             IF draws = {} THEN Zero ELSE RInv(RMaxSet(draws)))

\* C3: a call whose scan finds a match registers an opportunity (a history
\* entry is appended and the value of the anchor's group is its profit) if
\* and only if sum < 1; when sum >= 1 nothing is registered.
C3_RegisteredIffSumBelowOne ==
    [][ScanMatched(last') =>
         IF RLt(SumOf(database', last'), One)
         THEN /\ Len(history') = Len(history) + 1
              /\ RGt(history'[Len(history')].profit, Zero)
              /\ get_set_value(groups', last'.odd.id) = history'[Len(history')].profit
         ELSE /\ history' = history
              /\ get_set_value(groups', last'.odd.id) = Zero]_vars

\* a matched call with sum exactly 1 has registered nothing
C3_Witness ==
    /\ ScanMatched(last)
    /\ SumOf(database, last) = One
    /\ history = <<>>
    /\ valueOf(last.odd.id) = Zero

\* the call matched two two-way records priced (2.0, 2.0) and (2.5, 2.0)
ExamplePair(db, call) ==
    /\ ScanMatched(call)
    /\ Len(call.odds) = 2
    /\ \A i \in Members(call) : ~Truthy(DbGet(db, i).probaDraw)
    /\ {<<DbGet(db, i).probaA, DbGet(db, i).probaB>> : i \in Members(call)}
         = {<<R(2, 1), R(2, 1)>>, <<R(5, 2), R(2, 1)>>}

\* C4: the value registered for the group is (1 - sum) * 100 over the best
\* prices of the anchor and its matched records; records priced (2.0, 2.0)
\* and (2.5, 2.0) register a profit of 10, and the arbitrage count is then
\* greater than zero.
C4_ProfitIsHundredTimesMargin ==
    [][/\ history' # history =>
            LET p == RMul(RSub(One, SumOf(database', last')), Hundred)
            IN  /\ get_set_value(groups', last'.odd.id) = p
                /\ history'[Len(history')].profit = p
       /\ ExamplePair(database', last') =>
            /\ history' # history
            /\ get_set_value(groups', last'.odd.id) = R(10, 1)
            /\ count_groups(groups') > 0]_vars

C4_Witness ==
    /\ ExamplePair(database, last)
    /\ valueOf(last.odd.id) = R(10, 1)
    /\ arbitrage_count > 0

\* the rejection conditions of the filter
OutOfRange(p) == RLt(p, R(1, 100)) \/ RGt(p, R(100, 1))
YesOrNo(name) == lower(name) \in {<<"y", "e", "s">>, <<"n", "o">>}
Rejectable(odd) ==
    \/ OutOfRange(odd.probaA) \/ OutOfRange(odd.probaB)
    \/ YesOrNo(odd.optionA) \/ YesOrNo(odd.optionB)
    \/ lower(odd.optionA) = lower(odd.optionB)
    \/ (odd.event_date # NoDate /\ odd.event_date < Today)

\* the store db holds the record odd under its id
StoredAs(db, odd) ==
    /\ odd.id \in DbIds(db)
    /\ LET r == DbGet(db, odd.id)
       IN  /\ r.platform = odd.platform
           /\ r.optionA = odd.optionA /\ r.optionB = odd.optionB
           /\ r.probaA = odd.probaA /\ r.probaB = odd.probaB
           /\ r.probaDraw = odd.probaDraw
           /\ (odd.event_date # NoDate => r.event_date = odd.event_date)

SameGroup(g, call) ==
    \A x, y \in Members(call) :
        x \in DOMAIN g.data /\ y \in DOMAIN g.data /\ g.data[x] = g.data[y]

C7_LastWriteWins ==
    [][history' # history =>
         \A x \in Members(last') :
            get_set_value(groups', x) = history'[Len(history')].profit]_vars

\* a registration on the member set of the anchor's group with a lower profit
C7_Witness ==
    /\ last.op = "add_odd" /\ last.registered
    /\ last.prev_group = Members(last)
    /\ RGt(last.prev_value, last.profit)
    /\ \A x \in Members(last) : valueOf(x) = last.profit

\* C9: Graph.items yields each distinct group at most once, and yields a
\* group, with its value, if and only if it has more than one member and its
\* value is greater than zero.
C9_ItemsYieldsProfitableGroupsOnce ==
    LET yielded == items(groups)
    IN  /\ \A p \in BagToSet(yielded) :
              CopiesIn(p, yielded) = 1 /\ p[1] \in groups_ids(groups)
        /\ \A ids \in groups_ids(groups) :
              LET of_ids == {p \in BagToSet(yielded) : p[1] = ids}
                  value == get_set_value_of_set(groups, ids)
              IN  IF Cardinality(ids) > 1 /\ value # None /\ RGt(value, Zero)
                  THEN of_ids = {<<ids, value>>}
                  ELSE of_ids = {}

\* a group of two records whose value is 0 is not yielded
C9_Witness ==
    /\ \E ids \in groups_ids(groups) :
          Cardinality(ids) > 1 /\ get_set_value_of_set(groups, ids) = Zero
    /\ history # <<>>
    /\ items(groups) = EmptyBag

Delivered(db) == [i \in 1..Len(db) |-> [db[i] EXCEPT !.reversed_match = Unset]]

\* every call so far ingested a record of its own: each stored record was
\* ingested once, and the store holds them in the order of their ingestion
IngestedOnceEach ==
    /\ nops = Len(database)
    /\ DOMAIN db_update_date = {}

\* the records of db come from distinct platforms and every pair matches
MutuallyMatching(db) ==
    /\ Len(db) > 1
    /\ \A i, j \in 1..Len(db) : i # j => is_match(db[i], db[j])

\* the orders the records of db can be ingested in
Orders(db) ==
    {[i \in 1..Len(db) |-> db[p[i]]] :
        p \in {q \in [1..Len(db) -> 1..Len(db)] :
                 \A i, j \in 1..Len(db) : i # j => q[i] # q[j]}}

\* C12: for N records from N distinct platforms in which every pair
\* matches, the group membership after ingesting all of them once is the same
\* for every permutation of the ingestion order: the membership reached is
\* the one every other order of the same records leaves.
C12_OrderIndependent ==
    (IngestedOnceEach /\ MutuallyMatching(database))
        => \A feed \in Orders(Delivered(database)) :
             \A m \in add_odds_from(NewManager, feed) :
                 m.groups.data = groups.data

\* the sides of b are the sides of a in the other order
SidesSwapped(a, b) ==
    /\ lower(a.optionA) = lower(b.optionB)
    /\ lower(a.optionB) = lower(b.optionA)

\* the records the last call matched whose sides are those of the record it
\* ingested, in the other order
SwappedMatches ==
    {x \in Members(last) \ {last.odd.id} :
        SidesSwapped(DbGet(database, last.odd.id), DbGet(database, x))}

\* C13: when platform A's record has sides (X, Y) and platform B's record,
\* ingested later, has sides (Y, X), then after both calls the
\* later-ingested record carries the reversed flag.
C13_LaterRecordCarriesFlag ==
    (ScanMatched(last) /\ SwappedMatches # {})
        => DbGet(database, last.odd.id).reversed_match = Flag(TRUE)

\* C13 as the code has it: after both calls the earlier-ingested record,
\* the stored one the scan matched, carries the reversed flag, and the
\* later-ingested record carries none.
C13_EarlierRecordCarriesFlag ==
    ScanMatched(last)
        => /\ \A x \in SwappedMatches :
                 DbGet(database, x).reversed_match = Flag(TRUE)
           /\ DbGet(database, last.odd.id).reversed_match = Unset

\* B with sides (Y, X) was ingested after A with sides (X, Y) and matched it
C13_Witness ==
    /\ ScanMatched(last) /\ SwappedMatches # {}
    /\ nops = 2 /\ Len(database) = 2

\* C14: addSingleton(id) (Graph.add_node) called for an id that already
\* belongs to a group is a no-op: that group's membership and its attached
\* value are unchanged.
C14_AddNodeOfKnownIdIsNoOp ==
    \A id \in DOMAIN groups.data :
        \A g \in add_node(groups, DbGet(database, id)) :
            /\ find_set(g, id) = groupOf(id)
            /\ get_set_value(g, id) = valueOf(id)

\* the arguments add_set is called with
IdSets == SUBSET Ids \ {{}}
SetValues == {Zero, R(10, 1)}

\* C15: mergeAndSetValue is idempotent: from any reachable state, calling
\* add_set(ids, v) twice in a row with the same ids and value leaves the
\* membership map and the value map as calling it once does.
C15_AddSetIdempotent ==
    \A ids \in IdSets, v \in SetValues :
        \A g1 \in add_set(groups, ids, v) :
            \A g2 \in add_set(g1, ids, v) :
                g2.data = g1.data /\ g2.set_values = g1.set_values

\* the last call merged several ids under a value with add_set, and the same
\* add_set call once more changes nothing
C15_Witness ==
    /\ last.registered /\ Cardinality(Members(last)) > 1
    /\ last.prev_group # {} /\ last.prev_group # groupOf(last.odd.id)
    /\ add_set(groups, Members(last), last.profit) = {groups}

\* the members of the group of id that are still known, id apart
OtherMembers(id) == (groupOf(id) \cap DOMAIN groups.data) \ {id}

\* C16: after remove(id) (SetStructure.delete_key) on a member of a group
\* that has other members, id is detached: groupOf(id) is none and id is not
\* contained in groupOf(y) for any remaining id y.
C16_DeleteKeyDetaches ==
    \A id \in DOMAIN groups.data :
        OtherMembers(id) # {}
            => LET after == delete_key(groups, id).groups
               IN  /\ find_set(after, id) = {}
                   /\ \A y \in DOMAIN after.data : id \notin find_set(after, y)

\* C17: remove(id) (SetStructure.delete_key) on the last remaining member of
\* a group, and delete_set on a whole group, complete without raising an
\* error, return true, and leave no entry for that group in the value map.
C17_DeleteLastCompletes ==
    \A id \in DOMAIN groups.data :
        /\ OtherMembers(id) = {}
              => LET call == delete_key(groups, id)
                 IN  /\ call.raised = "" /\ call.returns = "True"
                     /\ groupOf(id) \notin DOMAIN call.groups.set_values
        /\ LET call == delete_set(groups, id)
           IN  /\ call.raised = "" /\ call.returns = "True"
               /\ groupOf(id) \notin DOMAIN call.groups.set_values

\* C18: after any sequence of registrations the history length never
\* exceeds max_history, and once more than max_history entries have been
\* appended the history holds exactly the max_history most recent entries in
\* registration order: every registration puts its entry last, behind the
\* entries it found, of which the oldest is evicted when the list was full.
C18_HistoryKeepsMostRecent ==
    [][nops' > nops
         => /\ Len(history') <= HistoryLimit
            /\ Len(history') > 0
            /\ history'[Len(history')].profit = last'.profit
            /\ SubSeq(history', 1, Len(history') - 1) =
                  IF Len(history) < HistoryLimit THEN history
                  ELSE Tail(history)]_vars

\* more than max_history entries were appended and the list is full
C18_Witness ==
    /\ last.op = "_update_history"
    /\ nops > HistoryLimit
    /\ Len(history) = HistoryLimit

\* every counter of counts is the number of records of its platform in db
CountsStoredIds(counts, db) ==
    \A p \in Platforms :
        counts[p] = Cardinality({id \in DbIds(db) : DbGet(db, id).platform = p})

\* C19: after any sequence of addRecord calls each platform's counter equals
\* the number of distinct record ids of that platform in the store: a call
\* increments the counter only when it stores an id for the first time, and
\* re-ingesting a stored id or ingesting a garbage record changes no counter.
C19_CountersCountStoredIds ==
    [][/\ CountsStoredIds(platform_counts, database)
       /\ CountsStoredIds(platform_counts', database')
       /\ (last'.garbage \/ last'.odd.id \in DbIds(database))
             => platform_counts' = platform_counts]_vars

\* a stored id was ingested again and accepted, after a garbage record was
\* rejected or another re-ingest
C19_Witness ==
    /\ last.op = "add_odd" /\ ~last.garbage
    /\ last.prev_group # {}
    /\ nops = 3 /\ Len(database) = 1
    /\ platform_counts[last.odd.platform] = 1

\* the stored records the record ingested by the last call matches
MatchesOf(db, call) ==
    {id \in DbIds(db) : is_match(DbGet(db, call.odd.id), DbGet(db, id))}

\* the scan of the last call found a match
FoundMatch(db, call) ==
    /\ call.op = "add_odd" /\ ~call.garbage
    /\ MatchesOf(db, call) # {}

\* C20: matchesFound increases by exactly one for each addRecord call whose
\* scan finds one or more matches, whatever the number of matches and whether
\* or not sum < 1, and is unchanged by a call that finds no match or is
\* rejected as garbage.
C20_OneMatchCountPerCall ==
    [][nops' > nops
         => matches_found' = IF FoundMatch(database', last')
                             THEN matches_found + 1
                             ELSE matches_found]_vars

\* a call matched two records without finding an arbitrage, and counted once
C20_Witness ==
    /\ FoundMatch(database, last)
    /\ Cardinality(MatchesOf(database, last)) = 2
    /\ ~last.registered
    /\ matches_found = 1

\* a side name of odd is the empty string
EmptySide(odd) == odd.optionA = <<>> \/ odd.optionB = <<>>

\* C24: a record whose side name (optionA or optionB) is the empty string is
\* treated as garbage: after addRecord the store size is unchanged and the
\* record is not in the store.
C24_EmptySideIsGarbage ==
    [][(nops' > nops /\ last'.op = "add_odd" /\ EmptySide(last'.odd))
         => /\ Len(database') = Len(database)
            /\ ~StoredAs(database', last'.odd)]_vars

\* the event dates of the stored records among ids
DatesOf(ids) ==
    {DbGet(database, i).event_date : i \in ids \cap DbIds(database)} \ {NoDate}

\* the earliest of a set of dates
Earliest(dates) == CHOOSE d \in dates : \A e \in dates : d <= e

\* C25: for every opportunity returned by activeOpportunities, the reported
\* event date is the earliest non-null event_date among the group's member
\* records, and is unknown only when no member has a date.
C25_ReportsEarliestDate ==
    \A arb \in get_active_arbitrages(groups, values) :
        IF DatesOf(arb.ids) = {} THEN arb.date = NoDate
        ELSE arb.date = Earliest(DatesOf(arb.ids))

\* C25 as the code has it: the reported event date is the event_date of one
\* of the member records that have one, and is unknown only when no member
\* has a date.
C25_ReportsDateOfAMember ==
    \A arb \in get_active_arbitrages(groups, values) :
        IF DatesOf(arb.ids) = {} THEN arb.date = NoDate
        ELSE arb.date \in DatesOf(arb.ids)

\* an opportunity is reported whose members have two different dates, with
\* the later one as its date
C25_Witness ==
    \E arb \in get_active_arbitrages(groups, values) :
        /\ Cardinality(DatesOf(arb.ids)) = 2
        /\ arb.date # Earliest(DatesOf(arb.ids))

\* C26: for a record ingested without an event date, the stored record ends
\* with event_date = d whether update_date(id, d) is called before add_odd or
\* after it: update_date leaves d on the stored record, and add_odd of a
\* record without a date leaves the date update_date was last called with.
C26_DateArrivesInEitherOrder ==
    /\ (last.op = "update_date" /\ last.odd.id \in DbIds(database))
          => DbGet(database, last.odd.id).event_date = last.date
    /\ (/\ last.op = "add_odd" /\ ~last.garbage
        /\ last.odd.event_date = NoDate
        /\ last.odd.id \in DOMAIN db_update_date)
          => DbGet(database, last.odd.id).event_date = db_update_date[last.odd.id]

\* update_date(id, d) came first, add_odd of the record without a date
\* second, and the stored record has the date d
C26_Witness ==
    /\ nops = 2 /\ Len(database) = 1
    /\ last.op = "add_odd" /\ last.odd.event_date = NoDate
    /\ last.odd.id \in DOMAIN db_update_date
    /\ database[1].event_date = Today + 1

\* the number of entries of the list get_active_arbitrages returns
ActiveCount == BagCardinality(items(groups))

\* C27: arbitrageCount() returns the number of currently active arbitrage
\* opportunities: in every reachable state it equals the number of entries
\* returned by activeOpportunities(), and it is 0 as long as no opportunity
\* has been registered.
C27_CountsActiveOpportunities ==
    /\ arbitrage_count = ActiveCount
    /\ history = <<>> => arbitrage_count = 0

RECURSIVE SumOver(_, _)
SumOver(f, S) ==
    IF S = {} THEN 0
    ELSE LET x == CHOOSE y \in S : TRUE IN f[x] + SumOver(f, S \ {x})

Counters(counts, found, errors) ==
    [platforms |-> SumOver(counts, DOMAIN counts), matches |-> found,
     errors |-> BagCardinality(errors)]

\* C29: every addRecord call rejected by the garbage filter is counted: a
\* counter of the engine increases by one for each rejected record.
C29_RejectionIsCounted ==
    [][(nops' > nops /\ last'.op = "add_odd" /\ last'.garbage)
         => LET before == Counters(platform_counts, matches_found, error_counts)
                after == Counters(platform_counts', matches_found', error_counts')
            IN  \/ after.platforms = before.platforms + 1
                \/ after.matches = before.matches + 1
                \/ after.errors = before.errors + 1]_vars

\* the records a call matched, as the store holds them after the call
MatchedRecords(db, call) ==
    {DbGet(db, i) : i \in Members(call) \ {call.odd.id}}

\* the draw prices that are present among the anchor and its matches
PresentDraws(db, call) ==
    {o.probaDraw : o \in {r \in {DbGet(db, i) : i \in Members(call)} :
                             Truthy(r.probaDraw)}}

\* C30: bestA and bestB of a call that matched are the largest prices, over
\* the anchor and the records matched in the call, for the anchor's side A
\* and side B, a record flagged reversed offering its B price on side A and
\* its A price on side B; bestDraw is the largest draw price present and is
\* None when no record has one.
C30_BestOddsAreMaxima ==
    [][ScanMatched(last') =>
         LET anchor == DbGet(database', last'.odd.id)
             matched == MatchedRecords(database', last')
             draws == PresentDraws(database', last')
         IN  /\ last'.best.A
                  = RMaxSet({anchor.probaA} \cup {SideA(o) : o \in matched})
             /\ last'.best.B
                  = RMaxSet({anchor.probaB} \cup {SideB(o) : o \in matched})
             /\ last'.best.Draw
                  = IF draws = {} THEN None ELSE RMaxSet(draws)]_vars

\* a call matched a reversed record whose B price is the best price of side
\* A, and a record with a draw price
C30_Witness ==
    /\ ScanMatched(last)
    /\ \E o \in MatchedRecords(database, last) :
          /\ o.reversed_match = Flag(TRUE)
          /\ o.probaA # o.probaB
          /\ last.best.A = o.probaB
          /\ RLt(DbGet(database, last.odd.id).probaA, o.probaB)
    /\ Truthy(last.best.Draw)

\* a call matched records none of which has a draw price
C30_WitnessNoDraw ==
    /\ ScanMatched(last)
    /\ last.best.Draw = None

\* thread t is in a call of the Manager
InCall(t) == threads[t].pc # "idle"

\* the lock the line pc is to acquire
WantedLock(pc) ==
    CASE pc \in {"l515", "l525", "l454", "l457"} -> "database_lock"
      [] pc \in {"l519", "l292"} -> "graph.lock"
      [] pc = "l576" -> "stats_lock"
      [] OTHER -> "none"

\* thread t waits for a lock another thread holds
Blocked(t) ==
    /\ WantedLock(threads[t].pc) # "none"
    /\ locks[WantedLock(threads[t].pc)] # Free

\* no thread is in a call, or one of the threads in a call can go on
NoDeadlock ==
    (\E t \in Threads : InCall(t)) => \E t \in Threads : InCall(t) /\ ~Blocked(t)

\* thread t is in a call of add_odd / has left a call of add_odd by its
\* return, with every line of the call executed
InAddOdd(t) == InCall(t) /\ threads[t].op = "add_odd"
Completed(t) ==
    ~InCall(t) /\ threads[t].op = "add_odd" /\ threads[t].ended = "returned"

\* thread t has left a call by an exception
Aborted(t) == ~InCall(t) /\ threads[t].ended = "raised"

\* C21: with threads calling add_odd, update_date, get_detailed_stats,
\* get_active_arbitrages and size at the same time, no deadlock is reachable
\* and, under fair scheduling, every add_odd call that has started runs to
\* completion in the end: the call is left, and it is left by its return.
C21_NoDeadlockAndEveryCallCompletes ==
    /\ []NoDeadlock
    /\ [][\A t \in Threads : InAddOdd(t) /\ ~InAddOdd(t)' => Completed(t)']_vars
    /\ \A t \in Threads : InAddOdd(t) ~> Completed(t)

\* what holds of C21: no deadlock is reachable, and every call that has
\* started is left in the end, by a return or by an exception
C21_NoDeadlockAndEveryCallEnds ==
    /\ []NoDeadlock
    /\ \A t \in Threads : InCall(t) ~> ~InCall(t)

\* an add_odd call has been left by the RuntimeError of its scan
C21_Aborted ==
    \E t \in Threads : Aborted(t) /\ threads[t].op = "add_odd"

\* C22: no thread ever holds two of the locks database_lock, graph.lock and
\* stats_lock at the same time, and a thread in get_detailed_stats never
\* holds database_lock.
C22_AtMostOneLockHeld ==
    \A t \in Threads :
        /\ Cardinality(Holds(t)) <= 1
        /\ threads[t].op = "get_detailed_stats" /\ InCall(t)
             => "database_lock" \notin Holds(t)

\* thread t takes the step
Acting(t) ==
    \/ threads'[t].pc # threads[t].pc
    \/ threads'[t].k # threads[t].k

\* C23: the store is never changed by one thread while another thread is
\* inside its scan: every step that changes the store, and every execution
\* of "self.database[odd.id] = odd", is taken by a thread that holds
\* database_lock.
C23_StoreChangesUnderDatabaseLock ==
    [][\A t \in Threads :
         Acting(t) /\ (database' # database \/ threads[t].pc = "l520")
           => locks["database_lock"] = t]_vars

\* a thread stores a record while another thread is inside its scan
C23_StoredDuringScan ==
    \E t, u \in Threads :
        /\ t # u
        /\ threads[t].pc = "l526"
        /\ Len(database) # threads[t].used
        /\ threads[u].pc = "l525"

\* both records are dated and their dates are more than one day apart
DatesApart(a, b) ==
    /\ a.event_date # NoDate /\ b.event_date # NoDate
    /\ (a.event_date - b.event_date > 1 \/ b.event_date - a.event_date > 1)

\* C31: the matched set of an add_odd call never holds the anchor itself, a
\* record of the anchor's platform, or a record whose event_date is more
\* than one day away from the anchor's when both are dated.
C31_MatchedSetExclusions ==
    [][last'.op = "add_odd" =>
         LET anchor == DbGet(database', last'.odd.id)
         IN  \A k \in 2..Len(last'.odds) :
               LET other == DbGet(database', last'.odds[k])
               IN  /\ other.id # anchor.id
                   /\ other.platform # anchor.platform
                   /\ ~DatesApart(anchor, other)]_vars

\* a call has passed over a stored record of another platform with the
\* anchor's sides because its date is two days away, and over a record of
\* its own platform with the anchor's sides
C31_Witness ==
    /\ last.op = "add_odd" /\ ~last.garbage
    /\ LET anchor == DbGet(database, last.odd.id)
           skipped == {i \in DbIds(database) \ Members(last) :
                         standard_match(anchor, DbGet(database, i))}
       IN  /\ \E i \in skipped :
                 /\ DbGet(database, i).platform # anchor.platform
                 /\ DatesApart(anchor, DbGet(database, i))
           /\ \E i \in skipped : DbGet(database, i).platform = anchor.platform

\* the orientation the scan of thread t computes for the record o against
\* the anchor of t
OwnOrientation(t, o) ==
    Flag(reversed_match(Anchor(t), o) /\ ~standard_match(Anchor(t), o))

\* C32: with concurrent add_odd calls, the orientation a call applies to a
\* matched record when it computes the best prices is the one its own scan
\* computed against its own anchor, never a value another call wrote to the
\* stored record.
C32_OrientationIsTheCallsOwn ==
    [][\A t \in Threads :
         threads[t].pc = "l583" /\ Acting(t)
           => \A i \in 2..Len(OddsOf(t)) :
                OddsOf(t)[i].reversed_match = OwnOrientation(t, OddsOf(t)[i])]_vars

\* every call that was started has been left
AllCallsEnded == \A t \in Threads : ~InCall(t)

\* C33: under every interleaving of concurrent add_odd calls, two calls
\* that bring the same id not yet stored included, once all calls have
\* ended the sum of the platform counters is the size of the store.
C33_CountersSumToStoreSize ==
    AllCallsEnded => SumOver(platform_counts, DOMAIN platform_counts) = Len(database)

\* C34: for every interleaving of update_date(id, d) with an add_odd of a
\* record with that id and no event_date, once the calls have returned the
\* stored record has event_date = d.
C34_DateReachesStoredRecord ==
    (AllCallsEnded /\ \A t \in Threads : ~Aborted(t))
      => \A id \in DbIds(database) \cap DOMAIN db_update_date :
           DbGet(database, id).event_date = db_update_date[id]

\* two add_odd calls, one of each thread, have brought the two records of
\* the store, which match each other, and both calls have ended
TwoMatchingIngested ==
    /\ nops = 2 /\ AllCallsEnded
    /\ \A t \in Threads : threads[t].op = "add_odd"
    /\ Len(database) = 2
    /\ is_match(database[1], database[2]) /\ is_match(database[2], database[1])

\* C35: when two records of different platforms that match each other are
\* brought by two concurrent add_odd calls, at least one of the calls finds
\* the other record in its scan, whatever the interleaving: the record it
\* found carries the orientation its scan wrote, and the match is counted.
C35_MatchIsNeverMissed ==
    TwoMatchingIngested
      => /\ \E i \in 1..2 : database[i].reversed_match # Unset
         /\ matches_found >= 1

\* the two calls overlapped: the scan of one was cut short by the store of
\* the other, whose scan then found the match
C35_Witness ==
    /\ TwoMatchingIngested
    /\ \E t \in Threads : Aborted(t)
    /\ matches_found = 1

\* the groups get_active_arbitrages returns, over the store and the groups
\* given
ActiveGroups(g, db) ==
    {arb.ids : arb \in get_active_arbitrages(g, [i \in DbIds(db) |-> DbGet(db, i)])}

\* C36: after an add_odd call for a record has ended without finding an
\* arbitrage (no match, or sum >= 1), no group get_active_arbitrages
\* returns holds the id of the record, also when an earlier call registered
\* a positive profit for a group that holds it.
C36_NoArbitrageLeavesIdInactive ==
    [][(last'.op = "add_odd" /\ ~last'.garbage /\ ~last'.registered)
         => \A ids \in ActiveGroups(groups', database') : last'.odd.id \notin ids]_vars

\* C37: after any sequence of add_odd and update_date calls, every stored
\* record has no event_date or an event_date that is not before the day it
\* was ingested (every call of a run is made on the day Today).
C37_NoStoredDateBeforeIngestion ==
    \A i \in 1..Len(database) :
        database[i].event_date = NoDate \/ database[i].event_date >= Today

\* the names the search of a call of normalize_team_name goes over: the main
\* names and the aliases of the sport when the sport has a table, of every
\* sport otherwise
SearchedNames(raw, sport) ==
    LET table == load_team_aliases(raw).ALIASES
        sports == IF sport # NoSport /\ sport \in DOMAIN table
                  THEN {sport} ELSE DOMAIN table
    IN  UNION {DOMAIN table[sp] \cup UNION {table[sp][m] : m \in DOMAIN table[sp]}
               : sp \in sports}

\* C38: normalize_team_name returns for every name and every loaded alias
\* table, and calls itself at most once: the name the fuzzy search returns is
\* a main name or an alias of the table searched, and the call made with it
\* returns on a direct hit.
C38_AtMostOneRecursiveCall ==
    last.op = "normalize_team_name"
        => /\ last.normalize.name # <<"RecursionError">>
           /\ Len(last.normalize.via) <= 1
           /\ \A i \in 1..Len(last.normalize.via) :
                 /\ last.normalize.via[i] \in
                        SearchedNames(last.normalize.raw, last.normalize.sport)
                 /\ last.normalize.fixed

\* a call that found its name by the fuzzy search and called itself once
C38_Witness ==
    /\ last.op = "normalize_team_name"
    /\ Len(last.normalize.via) = 1
    /\ last.normalize.fixed
    /\ last.normalize.team_name # last.normalize.via[1]

\* the platforms of the records of a group
PlatformsOf(ids, db) == {DbGet(db, i).platform : i \in ids \cap DbIds(db)}

\* C39: after any sequence of add_odd calls, every group
\* get_active_arbitrages returns holds records of at least two platforms.
C39_ActiveGroupSpansTwoPlatforms ==
    \A ids \in ActiveGroups(groups, database) :
        Cardinality(PlatformsOf(ids, database)) >= 2

\* an active group of three records, two of them of the same platform
C39_Witness ==
    \E ids \in ActiveGroups(groups, database) :
        /\ Cardinality(ids) = 3
        /\ Cardinality(PlatformsOf(ids, database)) = 2

\* C40: for records the garbage filter accepted, every value add_odd
\* registers for a group is greater than 0 and less than 100, whatever the
\* draw prices of the records.
C40_RegisteredValueWithinBounds ==
    (last.op = "add_odd" /\ last.registered)
        => RGt(last.profit, Zero) /\ RLt(last.profit, Hundred)

====
